---- MODULE Spec2Model ----
(***************************************************************************)
(* nanojack: a rolling log writer.  One Logger owns the active file at the *)
(* configured path, counts one line per Write, and rotates the file into a *)
(* backup (timestamped or sequential name; move-create or copy-truncate)   *)
(* when the next Write would exceed MaxLines.                              *)
(*                                                                         *)
(* The directory is a function from names to files.  A name is a pair      *)
(* <<kind, key>>: the active path, a timestamped backup prefix-<ts>.ext,   *)
(* a sequential backup <activepath>.k, or a foreign name: prefix-<token>.ext *)
(* with a token that is no timestamp ("junk"), or a name of another shape  *)
(* ("other").  A file is its byte content and its permission bits.  The clock is the integer `now`; the environment   *)
(* advances it (Tick) and may make one system call of an operation fail.   *)
(***************************************************************************)
EXTENDS Integers, Sequences, FiniteSets, TLC

\* ---------------------------------------------------------------- bounds
MaxTime == 1          \* clock readings are 0..MaxTime
MaxOps == 3           \* Write, Rotate and Close calls in one behaviour
MaxFaults == 1        \* failing system calls in one behaviour
MaxIndex == 3         \* highest index of a backup found at the start
MaxSeqOps == 5        \* calls in one behaviour of SpecSeqFresh

\* ------------------------------------------------------ program constants
defaultMaxLines == 10
MoveRetries == 20

NL == "\n"
Payloads == { <<>>, <<"a">>, <<"b", NL>> }

ModeNewFile == {"ur", "uw", "gr", "or"}                 \* 0644
ModeAll == {"ur", "uw", "gr", "gw", "or", "ow"}         \* 0666
ModePrivate == {"ur", "uw"}                             \* 0600

Active == <<"act", 0>>
TsName(t) == <<"ts", t>>
SeqName(k) == <<"seq", k>>
JunkName == <<"junk", 0>>
OtherName == <<"other", 0>>

\* the process umask (022)
umask == {"gw", "ow"}

VARIABLES
  cfg,     \* MaxLines, MaxBackups, CopyTruncate, Sequential
  now,     \* the reading of currentTime()
  fs,      \* the directory of the log file
  file,    \* l.file # nil
  lines,   \* l.lines
  jobs,    \* the delete lists of the running deleteAll goroutines
  last,    \* the last call of Write, Rotate or Close: what it returned (err,
           \* n, panic), how often it called rotate, and whether it got to
           \* l.file.Write
  hist,    \* what the behaviour so far has done (see Record)
  nops,    \* Write, Rotate and Close calls so far
  nfaults, \* system calls that failed so far
  mu,      \* l.mu is locked
  pc       \* per caller: "out", or "in" between Lock and Unlock

logVars == <<cfg, now, fs, file, lines, jobs, last, hist, nops, nfaults>>
muVars == <<mu, pc>>
vars == <<cfg, now, fs, file, lines, jobs, last, hist, nops, nfaults, mu, pc>>

\* ------------------------------------------------------------ file system
Put(d, n, ent) == [x \in (DOMAIN d) \cup {n} |-> IF x = n THEN ent ELSE d[x]]
Del(d, n) == [x \in (DOMAIN d) \ {n} |-> d[x]]
\* The identity of a file (device and inode, what os.SameFile compares).
\* Identities are labels without meaning of their own: when a call starts,
\* every file is labelled by the name it has then (see Return); a file
\* created during the call gets a number no file of the directory
\* carries.  Rename moves a file with its identity, truncation
\* keeps it.
Inodes(d) == {d[x].ino : x \in DOMAIN d}
FreshIno(d) ==
  <<"new", CHOOSE k \in 1..(Cardinality(DOMAIN d) + 1) : <<"new", k>> \notin Inodes(d)>>
NewFile(d, mode) == [content |-> <<>>, mode |-> mode, ino |-> FreshIno(d)]

\* FileInfo.IsDir: the mode has the directory bit.  The content of a
\* directory stands for its entries: <<>> is the empty directory.
IsDir(ent) == "d" \in ent.mode
\* os.Remove removes a file or an empty directory
Removable(ent) == ~IsDir(ent) \/ ent.content = <<>>
\* os.Rename replaces a file by a file and an empty directory by a
\* directory, and fails on any other existing target
Replaces(d, from, to) ==
  to \in DOMAIN d =>
    /\ IsDir(d[from]) = IsDir(d[to])
    /\ IsDir(d[to]) => d[to].content = <<>>

\* os.OpenFile(name, O_CREATE|O_TRUNC, perm): an existing file keeps its
\* mode and loses its content; a new file gets perm minus the umask.
CreateTrunc(d, n, perm, um) ==
  IF n \in DOMAIN d THEN Put(d, n, [d[n] EXCEPT !.content = <<>>])
  ELSE Put(d, n, NewFile(d, perm \ um))

\* os.OpenFile(name, O_CREATE, perm) without O_TRUNC: an existing file is
\* opened as it is.
CreateKeep(d, n, perm, um) ==
  IF n \in DOMAIN d THEN d ELSE Put(d, n, NewFile(d, perm \ um))

\* io.Copy into a file opened at offset 0 without truncation: the copied
\* bytes replace the first Len(src) bytes, the rest of the target stays.
Overlay(old, src) ==
  IF Len(old) > Len(src) THEN src \o SubSeq(old, Len(src) + 1, Len(old)) ELSE src

Fails(e, site) == e.fault = <<site, "all">>

\* os.Rename at a site: site.once fails the first attempt of an operation
\* and lets a later one succeed, site.all fails every attempt.
RenameFails(e, site, attempt) ==
  \/ e.fault = <<site, "all">>
  \/ e.fault = <<site, "once">> /\ attempt = 1

\* ------------------------------------------------------------ Logger.max
max(c) == IF c.MaxLines = 0 THEN defaultMaxLines ELSE c.MaxLines

\* The threshold test of Write: l.lines+1 > l.max()
overMax_early(n, c) == n + 1 >= max(c)
overMax_late(n, c) == n > max(c)
overMax(n, c) == n + 1 > max(c)

\* ---------------------------------------------------------- linesInFile
\* strings.FieldsFunc(content, c == '\n'): the number of maximal runs of
\* bytes other than the newline.
linesInFile(content) ==
  Cardinality({i \in 1..Len(content) :
                 content[i] # NL /\ (i = 1 \/ content[i - 1] = NL)})

\* ------------------------------------------------- the operations' state
\* m: the Logger fields and the directory while an operation runs, with
\*    err (the error returned so far), panic, rot (calls of rotate), bk
\*    (backups made) and scans (directory scans of cleanup).
\* e: the configuration, the clock reading, the umask and the one system
\*    call site that fails during this operation ("none": no failure).
Ok(m) == [m EXCEPT !.err = FALSE]
Err(m) == [m EXCEPT !.err = TRUE]
Bad(m) == m.err \/ m.panic

\* Logger.close
close_keepsFailed(m, e) ==
  IF ~m.file THEN Ok(m)
  ELSE [m EXCEPT !.file = Fails(e, "close"), !.err = Fails(e, "close")]
close(m, e) ==
  IF ~m.file THEN Ok(m)
  ELSE [m EXCEPT !.file = FALSE, !.err = Fails(e, "close")]

\* fileExists(path): os_Stat returned no error
fileExists(d, e, path, site) == ~Fails(e, site) /\ path \in DOMAIN d

\* Logger.initializeFile
initializeFile_keepsHandle(m, e) ==
  IF Fails(e, "init.mkdir") \/ Fails(e, "init.create")
    THEN [m EXCEPT !.file = TRUE, !.err = TRUE]
  ELSE [m EXCEPT !.fs = CreateTrunc(m.fs, Active, ModeNewFile, e.umask),
                 !.file = TRUE, !.lines = 0, !.err = FALSE]
initializeFile(m, e) ==
  IF Fails(e, "init.mkdir") \/ Fails(e, "init.create") THEN Err(m)
  ELSE [m EXCEPT !.fs = CreateTrunc(m.fs, Active, ModeNewFile, e.umask),
                 !.file = TRUE, !.lines = 0, !.err = FALSE]

\* move(from, to): stat, then os.Rename, which replaces an existing target.
\* info is the FileInfo of from (its mode), nil when the stat failed.
NilInfo == [nil |-> TRUE, mode |-> {}]
Info(ent) == [nil |-> FALSE, mode |-> ent.mode]
move(d, e, from, to, statSite, renameSite, attempt) ==
  IF ~fileExists(d, e, from, statSite)
    THEN [fs |-> d, err |-> TRUE, info |-> NilInfo]
  ELSE IF RenameFails(e, renameSite, attempt) \/ ~Replaces(d, from, to)
    THEN [fs |-> d, err |-> TRUE, info |-> Info(d[from])]
  ELSE [fs |-> Put(Del(d, from), to, d[from]), err |-> FALSE,
        info |-> Info(d[from])]

\* moveCreate(from, to).  The loop body ends in an unconditional break, so
\* move runs once: tries is 1 after a failure, never above MoveRetries, and
\* the code goes on to open the new file whatever move returned.
moveCreate(m, e, from, to) ==
  LET r == move(m.fs, e, from, to, "move.stat", "move.rename", 1)
      tries == IF r.err THEN 1 ELSE 0
  IN IF r.err /\ tries > MoveRetries THEN Err(m)
     ELSE IF r.info.nil THEN [m EXCEPT !.panic = TRUE]
     ELSE IF Fails(e, "mc.create") THEN [m EXCEPT !.fs = r.fs, !.err = TRUE]
     ELSE LET d1 == CreateTrunc(r.fs, from, r.info.mode, e.umask)
          IN IF Fails(e, "mc.chown") THEN [m EXCEPT !.fs = d1, !.err = TRUE]
             ELSE [m EXCEPT !.fs = d1, !.file = TRUE, !.err = FALSE]

\* a copyTruncate that renames the file and makes a new one
copyTruncate_replaces(m, e, from, to) == moveCreate(m, e, from, to)

\* copyTruncate(from, to)
copyTruncate(m, e, from, to) ==
  IF ~fileExists(m.fs, e, from, "ct.stat") THEN Err(m)
  ELSE IF Fails(e, "ct.open") THEN Err(m)
  ELSE IF Fails(e, "ct.create") \/ (to \in DOMAIN m.fs /\ IsDir(m.fs[to])) THEN Err(m)
  ELSE LET info == m.fs[from].mode
           d1 == CreateKeep(m.fs, to, info, e.umask)
       IN IF Fails(e, "ct.chown") \/ Fails(e, "ct.copy")
            THEN [m EXCEPT !.fs = d1, !.err = TRUE]
          ELSE LET d2 == Put(d1, to, [d1[to] EXCEPT
                                        !.content = Overlay(@, m.fs[from].content)])
               IN IF Fails(e, "ct.truncate") THEN [m EXCEPT !.fs = d2, !.err = TRUE]
                  ELSE [m EXCEPT !.fs = Put(d2, from, [d2[from] EXCEPT !.content = <<>>]),
                                 !.file = TRUE, !.err = FALSE]

\* doMove
doMove(m, e, from, to, copyTrunc) ==
  IF copyTrunc THEN copyTruncate(m, e, from, to) ELSE moveCreate(m, e, from, to)

\* Logger.timestampedBackupName: prefix-<currentTime()>ext
timestampedBackupName_stale(e) == TsName(e.now - 1)
timestampedBackupName(e) == TsName(e.now)

\* The name as timestampedBackupName builds it from the base name of the
\* active file, a sequence of characters: filepath.Ext is the suffix from
\* the last dot on, empty without a dot; the formatted clock reading t is
\* one element of the result.
Dot == "."
Dash == "-"
Ext(filename) ==
  LET dots == {i \in 1..Len(filename) : filename[i] = Dot}
  IN IF dots = {} THEN <<>>
     ELSE SubSeq(filename, CHOOSE i \in dots : \A j \in dots : j <= i,
                 Len(filename))
backupFileName(filename, t) ==
  LET ext == Ext(filename)
      prefix == SubSeq(filename, 1, Len(filename) - Len(ext))
  IN prefix \o <<Dash, t>> \o ext
\* base names: foobar.log, one without extension, one with two dots, one
\* that is an extension only, one that ends in a dot
Filenames == {<<"f", Dot, "l">>, <<"f">>, <<"f", Dot, "g", Dot, "l">>,
              <<Dot, "l">>, <<"f", Dot>>}

\* cascade(name, fromN): renames <name>.fromN to <name>.(fromN+1), after
\* cascading the target when it exists.
RECURSIVE cascade(_, _, _)
cascade(d, e, fromN) ==
  LET from == SeqName(fromN)
      to == SeqName(fromN + 1)
  IN IF ~fileExists(d, e, from, "cascade.stat") THEN [fs |-> d, err |-> FALSE]
     ELSE LET c == IF fileExists(d, e, to, "cascade.stat") THEN cascade(d, e, fromN + 1)
                   ELSE [fs |-> d, err |-> FALSE]
          IN IF c.err THEN c
             ELSE LET r == move(c.fs, e, from, to, "cascade.stat", "cascade.rename", 1)
                  IN [fs |-> r.fs, err |-> r.err]

\* backupSequential without the cascade
backupSequential_noCascade(m, e) ==
  doMove(m, e, Active, SeqName(1), e.cfg.CopyTruncate)

\* backupSequential without the removal of <name>.MaxBackups
backupSequential_noCap(m, e) ==
  LET d1 == cascade(m.fs, e, 1).fs
  IN doMove([m EXCEPT !.fs = d1], e, Active, SeqName(1), e.cfg.CopyTruncate)

\* Logger.backupSequential: the results of os.Remove and cascade are dropped
backupSequential(m, e) ==
  LET maxBackupName == SeqName(e.cfg.MaxBackups)
      d0 == IF e.cfg.MaxBackups # 0 /\ fileExists(m.fs, e, maxBackupName, "seq.stat")
                 /\ ~Fails(e, "seq.remove") /\ Removable(m.fs[maxBackupName])
              THEN Del(m.fs, maxBackupName) ELSE m.fs
      d1 == cascade(d0, e, 1).fs
  IN doMove([m EXCEPT !.fs = d1], e, Active, SeqName(1), e.cfg.CopyTruncate)

\* Logger.backup
\* backup going on after a failed doMove that left an active file
backedUp_dropsErr(r) ==
  IF r.panic \/ Active \notin DOMAIN r.fs THEN [r EXCEPT !.file = FALSE]
  ELSE [r EXCEPT !.file = TRUE, !.lines = 0, !.bk = @ + 1, !.err = FALSE]
backedUp(r) ==
  IF Bad(r) THEN [r EXCEPT !.file = FALSE]
  ELSE [r EXCEPT !.file = TRUE, !.lines = 0, !.bk = @ + 1]
backup(m, e) ==
  backedUp(IF e.cfg.Sequential THEN backupSequential(m, e)
           ELSE doMove(m, e, Active, timestampedBackupName(e), e.cfg.CopyTruncate))

\* byFormatTime: newest embedded timestamp first
RECURSIVE byFormatTime(_)
byFormatTime(S) ==
  IF S = {} THEN <<>>
  ELSE LET t == CHOOSE x \in S : \A y \in S : y <= x
       IN <<TsName(t)>> \o byFormatTime(S \ {t})

\* Logger.timeFromName(name) # "": the name has the prefix and the ext
timeFromName(n) == n[1] \in {"ts", "junk"}
\* time.Parse(backupTimeFormat, token) returns no error
Parses(n) == n[1] = "ts"

\* Logger.oldLogFiles: the files named prefix-<ts>ext, newest first
oldLogFiles_withDirs(d) ==
  byFormatTime({n[2] : n \in {x \in DOMAIN d : timeFromName(x) /\ Parses(x)}})
oldLogFiles(d) ==
  byFormatTime({n[2] : n \in {x \in DOMAIN d :
                                ~IsDir(d[x]) /\ timeFromName(x) /\ Parses(x)}})

\* Logger.cleanup: hands files[MaxBackups:] to a deleteAll goroutine
cleanup_keepsOneMore(m, e) ==
  IF e.cfg.MaxBackups = 0 THEN Ok(m)
  ELSE IF Fails(e, "readdir") THEN Err(m)
  ELSE LET files == oldLogFiles(m.fs)
           m1 == [m EXCEPT !.scans = @ + 1]
           deletes == IF e.cfg.MaxBackups > 0 /\ e.cfg.MaxBackups + 1 < Len(files)
                        THEN SubSeq(files, e.cfg.MaxBackups + 2, Len(files))
                        ELSE <<>>
       IN IF Len(deletes) = 0 THEN Ok(m1)
          ELSE [m1 EXCEPT !.jobs = Append(@, deletes), !.err = FALSE]
\* cleanup handing over the file at index MaxBackups - 1 too
cleanup_dropsOneMore(m, e) ==
  IF e.cfg.MaxBackups = 0 THEN Ok(m)
  ELSE IF Fails(e, "readdir") THEN Err(m)
  ELSE LET files == oldLogFiles(m.fs)
           m1 == [m EXCEPT !.scans = @ + 1]
           deletes == IF e.cfg.MaxBackups > 0 /\ e.cfg.MaxBackups <= Len(files)
                        THEN SubSeq(files, e.cfg.MaxBackups, Len(files))
                        ELSE <<>>
       IN IF Len(deletes) = 0 THEN Ok(m1)
          ELSE [m1 EXCEPT !.jobs = Append(@, deletes), !.err = FALSE]
\* cleanup removing the files itself before it returns
cleanup_waits(m, e) ==
  IF e.cfg.MaxBackups = 0 THEN Ok(m)
  ELSE IF Fails(e, "readdir") THEN Err(m)
  ELSE LET files == oldLogFiles(m.fs)
           m1 == [m EXCEPT !.scans = @ + 1]
           deletes == IF e.cfg.MaxBackups > 0 /\ e.cfg.MaxBackups < Len(files)
                        THEN SubSeq(files, e.cfg.MaxBackups + 1, Len(files))
                        ELSE <<>>
           gone == {deletes[i] : i \in 1..Len(deletes)}
       IN [m1 EXCEPT !.fs = [x \in (DOMAIN m.fs) \ gone |-> m.fs[x]],
                     !.err = FALSE]
\* cleanup taking MaxBackups = 0 for a cap of no backup
cleanup_capZero(m, e) ==
  IF Fails(e, "readdir") THEN Err(m)
  ELSE LET files == oldLogFiles(m.fs)
           m1 == [m EXCEPT !.scans = @ + 1]
           deletes == IF e.cfg.MaxBackups < Len(files)
                        THEN SubSeq(files, e.cfg.MaxBackups + 1, Len(files))
                        ELSE <<>>
       IN IF Len(deletes) = 0 THEN Ok(m1)
          ELSE [m1 EXCEPT !.jobs = Append(@, deletes), !.err = FALSE]
cleanup(m, e) ==
  IF e.cfg.MaxBackups = 0 THEN Ok(m)
  ELSE IF Fails(e, "readdir") THEN Err(m)
  ELSE LET files == oldLogFiles(m.fs)
           m1 == [m EXCEPT !.scans = @ + 1]
           deletes == IF e.cfg.MaxBackups > 0 /\ e.cfg.MaxBackups < Len(files)
                        THEN SubSeq(files, e.cfg.MaxBackups + 1, Len(files))
                        ELSE <<>>
       IN IF Len(deletes) = 0 THEN Ok(m1)
          ELSE [m1 EXCEPT !.jobs = Append(@, deletes), !.err = FALSE]

\* Logger.rotate
\* rotateCleanup without the early return of the sequential scheme
rotateCleanup_always(b, e) ==
  IF Bad(b) THEN b
  ELSE cleanup(b, e)
rotateCleanup(b, e) ==
  IF Bad(b) THEN b
  ELSE IF e.cfg.Sequential THEN Ok(b)
  ELSE cleanup(b, e)
rotateClosed_alwaysBackup(c, e) ==
  IF c.err THEN c
  ELSE rotateCleanup(backup(c, e), e)
rotateClosed(c, e) ==
  IF c.err THEN c
  ELSE rotateCleanup(IF fileExists(c.fs, e, Active, "exists.stat") THEN backup(c, e)
                     ELSE initializeFile(c, e), e)
rotate(m, e) == rotateClosed(close([m EXCEPT !.rot = @ + 1], e), e)

\* Logger.openExistingOrNew
\* openExistingOrNew starting the counter of a reopened file at 0
openExistingOrNew_countsFromZero(m, e) ==
  IF Active \notin DOMAIN m.fs THEN initializeFile(m, e)
  ELSE IF Fails(e, "oeon.stat") THEN Err(m)
  ELSE IF Len(m.fs[Active].content) + 1 > max(e.cfg) THEN rotate(m, e)
  ELSE IF Fails(e, "oeon.open") THEN initializeFile(m, e)
  ELSE [m EXCEPT !.file = TRUE, !.lines = 0, !.err = FALSE]
\* openExistingOrNew emptying a file that is too large
openExistingOrNew_truncates(m, e) ==
  IF Active \notin DOMAIN m.fs THEN initializeFile(m, e)
  ELSE IF Fails(e, "oeon.stat") THEN Err(m)
  ELSE IF Len(m.fs[Active].content) + 1 > max(e.cfg) THEN initializeFile(m, e)
  ELSE IF Fails(e, "oeon.open") THEN initializeFile(m, e)
  ELSE IF Fails(e, "oeon.read") THEN initializeFile([m EXCEPT !.file = TRUE, !.lines = 0], e)
  ELSE [m EXCEPT !.file = TRUE, !.lines = linesInFile(m.fs[Active].content),
                 !.err = FALSE]
\* openExistingOrNew going on with the old file when it cannot be read
openExistingOrNew_keepsOld(m, e) ==
  IF Active \notin DOMAIN m.fs THEN initializeFile(m, e)
  ELSE IF Fails(e, "oeon.stat") THEN Err(m)
  ELSE IF Len(m.fs[Active].content) + 1 > max(e.cfg) THEN rotate(m, e)
  ELSE IF Fails(e, "oeon.open") THEN initializeFile(m, e)
  ELSE IF Fails(e, "oeon.read") THEN [m EXCEPT !.file = TRUE, !.lines = 0,
                                               !.err = FALSE]
  ELSE [m EXCEPT !.file = TRUE, !.lines = linesInFile(m.fs[Active].content),
                 !.err = FALSE]
openExistingOrNew(m, e) ==
  IF Active \notin DOMAIN m.fs THEN initializeFile(m, e)
  ELSE IF Fails(e, "oeon.stat") THEN Err(m)
  ELSE IF Len(m.fs[Active].content) + 1 > max(e.cfg) THEN rotate(m, e)
  ELSE IF Fails(e, "oeon.open") THEN initializeFile(m, e)
  ELSE IF Fails(e, "oeon.read") THEN initializeFile([m EXCEPT !.file = TRUE, !.lines = 0], e)
  ELSE [m EXCEPT !.file = TRUE, !.lines = linesInFile(m.fs[Active].content),
                 !.err = FALSE]

\* l.file.Write(p): the handle is the only writer of the active file, so
\* its position is the end of the file.  A failed write writes nothing.
fileWrite(m, e, p) ==
  IF Fails(e, "write") THEN [m EXCEPT !.err = TRUE, !.n = 0]
  ELSE [m EXCEPT !.fs = Put(m.fs, Active, [m.fs[Active] EXCEPT !.content = @ \o p]),
                 !.n = Len(p), !.err = FALSE]

\* The body of Logger.Write between Lock and Unlock
WriteAppend_skipsFailed(m2, e, p) ==
  IF Bad(m2) THEN m2
  ELSE [fileWrite(m2, e, p) EXCEPT !.lines = IF Fails(e, "write") THEN @ ELSE @ + 1,
                                   !.wrote = TRUE]
WriteAppend(m2, e, p) ==
  IF Bad(m2) THEN m2
  ELSE [fileWrite(m2, e, p) EXCEPT !.lines = @ + 1, !.wrote = TRUE]
WriteOpened(m1, e, p) ==
  IF Bad(m1) THEN m1
  ELSE WriteAppend(IF overMax(m1.lines, e.cfg) THEN rotate(m1, e) ELSE m1, e, p)
\* Write refusing a logger without handle
WriteBody_closedFails(m, e, p) ==
  IF ~m.file THEN Err(m) ELSE WriteOpened(m, e, p)
WriteBody(m, e, p) ==
  WriteOpened(IF ~m.file THEN openExistingOrNew(m, e) ELSE m, e, p)

\* ------------------------------------------------------------ the actions
NoFault == <<"none", "all">>
Faults == {NoFault, <<"move.rename", "once">>, <<"move.rename", "all">>,
           <<"mc.chown", "all">>, <<"mc.create", "all">>,
           <<"init.create", "all">>, <<"close", "all">>, <<"write", "all">>}

DefaultCfg == [MaxLines |-> 0, MaxBackups |-> 0, CopyTruncate |-> FALSE,
               Sequential |-> FALSE]
Configs == [MaxLines : {1, 2}, MaxBackups : {0, 1}, CopyTruncate : BOOLEAN,
            Sequential : BOOLEAN] \cup {DefaultCfg}

Threads == {1, 2}

File(content, mode, ino) == [content |-> content, mode |-> mode, ino |-> ino]
Dir0 == [x \in {} |-> File(<<>>, ModeNewFile, x)]
InitDirs == { Dir0,
              Put(Dir0, Active, File(<<"a">>, ModePrivate, Active)),
              Put(Dir0, Active, File(<<"b", NL, "b", NL>>, ModeAll, Active)) }

TsOf(d) == {n[2] : n \in {x \in DOMAIN d : x[1] = "ts" /\ ~IsDir(d[x])}}
SeqOf(d) == {n[2] : n \in {x \in DOMAIN d : x[1] = "seq"}}

Env(f) == [cfg |-> cfg, now |-> now, umask |-> umask, fault |-> f]
Enter == [fs |-> fs, file |-> file, lines |-> lines, jobs |-> jobs,
          err |-> FALSE, panic |-> FALSE, rot |-> 0, bk |-> 0, scans |-> 0,
          n |-> 0, wrote |-> FALSE]
NoCall == [op |-> "none", err |-> FALSE, panic |-> FALSE, n |-> 0, rot |-> 0,
           wrote |-> FALSE, old |-> {}]

\* hist records, for the behaviour so far:
\*   fresh, n, data: the directory was empty at the start and nothing but n
\*       Writes that returned no error, of the payloads data, has been
\*       called;
\* and, for the configurations they concern (MaxBackups > 0; timestamped:
\* everTs, rotAt, strict, scanned, undeleted; sequential: nbk):
\*   everTs: the timestamps of all timestamped backups that have existed;
\*   rotAt, strict: the clock reading of the latest rotate, and whether
\*       every rotate came at a later reading than the one before it;
\*   scanned: the latest rotate got as far as cleanup's directory scan;
\*   undeleted: an os.Remove of deleteAll has failed on an existing file;
\*   nbk: the calls of backup that returned no error.
Hist0(d) == [fresh |-> d = Dir0, n |-> 0, data |-> <<>>, everTs |-> TsOf(d),
             rotAt |-> -1, strict |-> TRUE, scanned |-> FALSE,
             undeleted |-> FALSE, nbk |-> 0]

Record(op, r, p) ==
  LET stay == hist.fresh /\ op = "Write" /\ ~Bad(r)
      ts == ~cfg.Sequential /\ cfg.MaxBackups > 0
      sq == cfg.Sequential /\ cfg.MaxBackups > 0
  IN [fresh |-> stay,
      n |-> IF stay THEN hist.n + 1 ELSE 0,
      data |-> IF stay THEN hist.data \o p ELSE <<>>,
      everTs |-> IF ts THEN hist.everTs \cup TsOf(r.fs) ELSE hist.everTs,
      rotAt |-> IF ts /\ r.rot > 0 THEN now ELSE hist.rotAt,
      strict |-> hist.strict /\ (ts /\ r.rot > 0 => now > hist.rotAt),
      scanned |-> IF ts /\ r.rot > 0 THEN r.scans > 0 ELSE hist.scanned,
      undeleted |-> hist.undeleted,
      nbk |-> IF sq THEN hist.nbk + r.bk ELSE hist.nbk]

\* last.old is, for a call that rotated, the set of paths that name, when
\* the call returns, the file the active path named when it started.  The directory is stored
\* with every file labelled by its name again.
Return(op, r, p) ==
  /\ fs' = [x \in DOMAIN r.fs |-> [r.fs[x] EXCEPT !.ino = x]]
  /\ file' = r.file
  /\ lines' = r.lines
  /\ jobs' = r.jobs
  /\ last' = [op |-> op, err |-> r.err, panic |-> r.panic,
              n |-> IF r.wrote THEN r.n ELSE 0, rot |-> r.rot,
              wrote |-> r.wrote,
              old |-> IF r.rot = 0 THEN {}
                      ELSE {x \in DOMAIN r.fs : r.fs[x].ino = Active}]
  /\ hist' = Record(op, r, p)

InitLogger ==
  /\ now = 0
  /\ file = FALSE
  /\ lines = 0
  /\ jobs = <<>>
  /\ last = NoCall
  /\ hist = Hist0(fs)
  /\ nops = 0
  /\ nfaults = 0
  /\ mu = FALSE
  /\ pc = [t \in Threads |-> "out"]

Init ==
  /\ cfg \in Configs
  /\ fs \in InitDirs
  /\ InitLogger

\* A failure is injected where it is reached: a call site the operation
\* does not get to cannot fail.
Inject(f, r, r0) ==
  /\ f # NoFault => nfaults < MaxFaults /\ r # r0
  /\ nfaults' = IF f = NoFault THEN nfaults ELSE nfaults + 1

\* Logger.Write(p), from after Lock to the deferred Unlock, in a behaviour
\* explored up to k calls
WriteWithin(k, p, f) ==
  /\ nops < k
  /\ \E r \in {WriteBody(Enter, Env(f), p)} :
       /\ Inject(f, r, WriteBody(Enter, Env(NoFault), p))
       /\ Return("Write", r, p)
  /\ nops' = nops + 1
  /\ UNCHANGED <<cfg, now>>

Write(p, f) == WriteWithin(MaxOps, p, f)

\* Logger.Rotate()
RotateWithin(k, f) ==
  /\ nops < k
  /\ \E r \in {rotate(Enter, Env(f))} :
       /\ Inject(f, r, rotate(Enter, Env(NoFault)))
       /\ Return("Rotate", r, <<>>)
  /\ nops' = nops + 1
  /\ UNCHANGED <<cfg, now>>

Rotate(f) == RotateWithin(MaxOps, f)

\* Logger.Close()
CloseWithin(k, f) ==
  /\ nops < k
  /\ \E r \in {close(Enter, Env(f))} :
       /\ Inject(f, r, close(Enter, Env(NoFault)))
       /\ Return("Close", r, <<>>)
  /\ nops' = nops + 1
  /\ UNCHANGED <<cfg, now>>

Close(f) == CloseWithin(MaxOps, f)

\* deleteAll: one os.Remove of a running goroutine; its error is dropped.
\* ok = FALSE: the removal of an existing file fails.
DeleteStep(i, ok) ==
  /\ i \in 1..Len(jobs)
  /\ ~ok => nfaults < MaxFaults /\ Head(jobs[i]) \in DOMAIN fs
  /\ nfaults' = IF ok THEN nfaults ELSE nfaults + 1
  /\ LET name == Head(jobs[i])
         rest == Tail(jobs[i])
     IN /\ fs' = IF ok /\ name \in DOMAIN fs /\ Removable(fs[name])
                   THEN Del(fs, name) ELSE fs
        /\ jobs' = IF rest = <<>>
                     THEN SubSeq(jobs, 1, i - 1) \o SubSeq(jobs, i + 1, Len(jobs))
                     ELSE [jobs EXCEPT ![i] = rest]
  /\ hist' = [hist EXCEPT !.undeleted = @ \/ ~ok]
  /\ UNCHANGED <<cfg, now, file, lines, last, nops>>

\* the clock advances
Tick ==
  /\ now < MaxTime
  /\ now' = now + 1
  /\ UNCHANGED <<cfg, fs, file, lines, jobs, last, hist, nops, nfaults>>

\* Each call holds l.mu from entry to return, so calls come one at a time.
Next ==
  \/ \E p \in Payloads, f \in Faults : Write(p, f) /\ UNCHANGED muVars
  \/ \E f \in Faults : Rotate(f) /\ UNCHANGED muVars
  \/ \E f \in Faults : Close(f) /\ UNCHANGED muVars
  \/ \E i \in 1..Len(jobs), ok \in BOOLEAN : DeleteStep(i, ok) /\ UNCHANGED muVars
  \/ Tick /\ UNCHANGED muVars

Spec == Init /\ [][Next]_vars

\* ------------------------------------------------------------- retention
\* The timestamped scheme with a cap, started in a directory that holds
\* backups of an earlier run: older than every reading of the clock, or
\* (a clock set back) with a later timestamp.
RetentionConfigs == [MaxLines : {1}, MaxBackups : {1, 2}, CopyTruncate : BOOLEAN,
                     Sequential : {FALSE}]
Earlier(S) ==
  [x \in {Active} \cup {TsName(t) : t \in S} |->
     IF x = Active THEN File(<<"a">>, ModeNewFile, x) ELSE File(<<"x">>, ModeNewFile, x)]
RetentionDirs == { Earlier({-1}), Earlier({-2, -1}), Earlier({-1, MaxTime + 1}) }

InitRetention ==
  /\ cfg \in RetentionConfigs
  /\ fs \in RetentionDirs
  /\ InitLogger

\* A started deleteAll goroutine runs on: each of its os.Remove calls
\* returns, and the scheduler gives the goroutine its turn.
Deletion == \E i \in 1..Len(jobs), ok \in BOOLEAN : DeleteStep(i, ok) /\ UNCHANGED muVars

SpecRetention == InitRetention /\ [][Next]_vars
FairRetention == SpecRetention /\ WF_vars(Deletion)

\* The same with entries that are no backups: a directory named like a
\* backup, a file prefix-<token>.ext whose token is no timestamp, and a
\* file of another name.
ModeDir == {"d", "ur", "uw", "ux"}
ForeignNames == {TsName(-1), JunkName, OtherName}
ForeignDir ==
  [x \in {Active, TsName(-2)} \cup ForeignNames |->
     IF x = Active THEN File(<<"a">>, ModeNewFile, x)
     ELSE IF x = TsName(-1) THEN File(<<>>, ModeDir, x)
     ELSE File(<<"x">>, ModeNewFile, x)]

InitForeign ==
  /\ cfg \in RetentionConfigs
  /\ fs = ForeignDir
  /\ InitLogger

SpecForeign == InitForeign /\ [][Next]_vars

\* ------------------------------------------------------------ sequential
\* The sequential scheme, started in a directory that holds the active
\* file, a file of another name, and entries <activepath>.k: the files
\* with the indices in files, the empty directories with those in dirs.
SequentialConfigs == [MaxLines : {1}, MaxBackups : {1, 2},
                      CopyTruncate : BOOLEAN, Sequential : {TRUE}]
Numbered(files, dirs) ==
  [x \in {Active, OtherName} \cup {SeqName(k) : k \in files \cup dirs} |->
     IF x = Active THEN File(<<"a">>, ModeNewFile, x)
     ELSE IF x[1] = "seq" /\ x[2] \in dirs THEN File(<<>>, ModeDir, x)
     ELSE File(<<"x">>, ModeNewFile, x)]
SequentialDirs ==
  {Numbered(S, {}) : S \in SUBSET (1..MaxIndex)}
    \cup {Numbered({}, {1}), Numbered({}, {2}), Numbered({2}, {1})}

InitSequential ==
  /\ cfg \in SequentialConfigs
  /\ fs \in SequentialDirs
  /\ InitLogger

\* backupSequential starts no deleteAll and reads no clock
NextSequential ==
  \/ \E p \in Payloads, f \in Faults : Write(p, f) /\ UNCHANGED muVars
  \/ \E f \in Faults : Rotate(f) /\ UNCHANGED muVars
  \/ \E f \in Faults : Close(f) /\ UNCHANGED muVars

SpecSequential == InitSequential /\ [][NextSequential]_vars

\* testSequentialRotate: MaxLines 1, MaxBackups 2, an empty directory, and
\* enough calls for four rotations
InitSeqFresh ==
  /\ cfg \in {c \in SequentialConfigs : c.MaxBackups = 2}
  /\ fs = Dir0
  /\ InitLogger

NextSeqFresh ==
  \/ \E p \in Payloads, f \in Faults :
       WriteWithin(MaxSeqOps, p, f) /\ UNCHANGED muVars
  \/ \E f \in Faults : RotateWithin(MaxSeqOps, f) /\ UNCHANGED muVars
  \/ \E f \in Faults : CloseWithin(MaxSeqOps, f) /\ UNCHANGED muVars

SpecSeqFresh == InitSeqFresh /\ [][NextSeqFresh]_vars

\* Writes of payloads with no, one and two line ends, mixed with Close and
\* Rotate, in an empty directory and with thresholds up to MaxLinesKept
MaxLinesKept == 3
TwoLines == <<"c", NL, "d", NL>>
PayloadKinds == { <<"a">>, <<"b", NL>>, TwoLines }
KeptConfigs == [MaxLines : 1..MaxLinesKept, MaxBackups : {0},
                CopyTruncate : BOOLEAN, Sequential : {FALSE}]
InitKept ==
  /\ cfg \in KeptConfigs
  /\ fs = Dir0
  /\ InitLogger

NextKept ==
  \/ \E p \in PayloadKinds :
       WriteWithin(MaxSeqOps, p, NoFault) /\ UNCHANGED muVars
  \/ RotateWithin(MaxSeqOps, NoFault) /\ UNCHANGED muVars
  \/ CloseWithin(MaxSeqOps, NoFault) /\ UNCHANGED muVars

SpecKept == InitKept /\ [][NextKept]_vars

\* The sequential scheme without a limit on the backups (MaxBackups = 0), in
\* an empty directory, every system call succeeding
UnlimitedConfigs == [MaxLines : {1, 2}, MaxBackups : {0},
                     CopyTruncate : BOOLEAN, Sequential : {TRUE}]
InitSeqUnlimited ==
  /\ cfg \in UnlimitedConfigs
  /\ fs = Dir0
  /\ InitLogger

NextSeqUnlimited ==
  \/ \E p \in Payloads :
       WriteWithin(MaxSeqOps, p, NoFault) /\ UNCHANGED muVars
  \/ RotateWithin(MaxSeqOps, NoFault) /\ UNCHANGED muVars
  \/ CloseWithin(MaxSeqOps, NoFault) /\ UNCHANGED muVars

SpecSeqUnlimited == InitSeqUnlimited /\ [][NextSeqUnlimited]_vars

\* The sequential scheme with a cap, in directories whose backups are the
\* regular files 1..k, k <= MaxBackups, where os.Rename may fail inside
\* cascade
CascadeConfigs == [MaxLines : {1}, MaxBackups : {2, 3},
                   CopyTruncate : BOOLEAN, Sequential : {TRUE}]
CascadeFaults == {NoFault, <<"cascade.rename", "all">>}
InitSeqCascade ==
  /\ cfg \in CascadeConfigs
  /\ fs \in {Dir0} \cup {Numbered(1..k, {}) : k \in 1..2}
  /\ InitLogger

NextSeqCascade ==
  \/ \E p \in Payloads, f \in CascadeFaults :
       WriteWithin(MaxSeqOps, p, f) /\ UNCHANGED muVars
  \/ \E f \in CascadeFaults : RotateWithin(MaxSeqOps, f) /\ UNCHANGED muVars
  \/ \E f \in CascadeFaults : CloseWithin(MaxSeqOps, f) /\ UNCHANGED muVars

SpecSeqCascade == InitSeqCascade /\ [][NextSeqCascade]_vars

\* The sequential scheme in a directory that holds timestamped backups,
\* left by a logger that ran with Sequential = false
StampedConfigs == [MaxLines : {1}, MaxBackups : {0, 1, 2},
                   CopyTruncate : BOOLEAN, Sequential : {TRUE}]
StampedDirs == {Earlier({-1}), Earlier({-2, -1}), Earlier({-1, MaxTime + 1})}
InitSeqStamped ==
  /\ cfg \in StampedConfigs
  /\ fs \in StampedDirs
  /\ InitLogger

NextSeqStamped ==
  \/ NextSequential
  \/ Tick /\ UNCHANGED muVars

SpecSeqStamped == InitSeqStamped /\ [][NextSeqStamped]_vars

\* ------------------------------------------------- opening and ownership
\* The calls with the failures of opening the active file (os.MkdirAll and
\* os.OpenFile of initializeFile, os.OpenFile of moveCreate; os_Stat,
\* os.OpenFile and ioutil.ReadFile of openExistingOrNew) and of chown in
\* copyTruncate and moveCreate.
ChownFaults == {<<"ct.chown", "all">>, <<"mc.chown", "all">>}
InitFaults == {<<"init.mkdir", "all">>, <<"init.create", "all">>,
               <<"mc.create", "all">>}
ReopenFaults == {<<"oeon.stat", "all">>, <<"oeon.open", "all">>,
                 <<"oeon.read", "all">>}
SetupFaults == {NoFault} \cup ChownFaults \cup InitFaults \cup ReopenFaults
SetupConfigs == [MaxLines : {1, 2}, MaxBackups : {0}, CopyTruncate : BOOLEAN,
                 Sequential : BOOLEAN]

InitSetup ==
  /\ cfg \in SetupConfigs
  /\ fs \in InitDirs
  /\ InitLogger

NextSetup ==
  \/ \E p \in Payloads, f \in SetupFaults : Write(p, f) /\ UNCHANGED muVars
  \/ \E f \in SetupFaults : Rotate(f) /\ UNCHANGED muVars
  \/ \E f \in SetupFaults : Close(f) /\ UNCHANGED muVars
  \/ Tick /\ UNCHANGED muVars

SpecSetup == InitSetup /\ [][NextSetup]_vars

\* ---------------------------------------------------------------- l.mu
\* Callers of Write, Rotate and Close as separate steps: l.mu.Lock(), then
\* the body, whose return runs the deferred l.mu.Unlock().  pc[t] is "out"
\* or the operation whose body t is in.
Ops == {"Write", "Rotate", "Close"}

MuConfigs == [MaxLines : {1}, MaxBackups : {1}, CopyTruncate : {FALSE},
              Sequential : BOOLEAN]

InitMu ==
  /\ cfg \in MuConfigs
  /\ fs \in {Earlier({-1})}
  /\ InitLogger

\* l.mu.Lock(): returns once the mutex is free, and takes it
Lock_noWait(t, op) ==
  /\ nops < MaxOps
  /\ pc[t] = "out"
  /\ mu' = TRUE
  /\ pc' = [pc EXCEPT ![t] = op]
  /\ UNCHANGED logVars
Lock(t, op) ==
  /\ nops < MaxOps
  /\ pc[t] = "out"
  /\ ~mu
  /\ mu' = TRUE
  /\ pc' = [pc EXCEPT ![t] = op]
  /\ UNCHANGED logVars

\* an Unlock that is no deferred call: a return with an error skips it
Unlock_skippedOnError(t) ==
  /\ mu' = last'.err
  /\ pc' = [pc EXCEPT ![t] = "out"]
\* defer l.mu.Unlock()
Unlock(t) ==
  /\ mu' = FALSE
  /\ pc' = [pc EXCEPT ![t] = "out"]

WriteCall(t, p, f) == pc[t] = "Write" /\ Write(p, f) /\ Unlock(t)
RotateCall(t, f) == pc[t] = "Rotate" /\ Rotate(f) /\ Unlock(t)
CloseCall(t, f) == pc[t] = "Close" /\ Close(f) /\ Unlock(t)

NextMu ==
  \/ \E t \in Threads, op \in Ops : Lock(t, op)
  \/ \E t \in Threads, p \in Payloads, f \in Faults : WriteCall(t, p, f)
  \/ \E t \in Threads, f \in Faults : RotateCall(t, f)
  \/ \E t \in Threads, f \in Faults : CloseCall(t, f)
  \/ Deletion
  \/ Tick /\ UNCHANGED muVars

SpecMu == InitMu /\ [][NextMu]_vars

\* Two callers of one Logger, from the invocation of an operation to its
\* return, with failing renames in moveCreate and in cascade
WaitConfigs == [MaxLines : {1}, MaxBackups : {2}, CopyTruncate : BOOLEAN,
                Sequential : BOOLEAN]
WaitFaults == Faults \cup {<<"cascade.rename", "all">>}
\* Callers that have invoked an operation and wait in l.mu.Lock() for the
\* mutex.  A caller is admitted only when the calls under way can all still
\* be made within MaxOps.
Waiting == [Write |-> "wantWrite", Rotate |-> "wantRotate", Close |-> "wantClose"]
Underway == {t \in Threads : pc[t] # "out"}
Invoke(t, op) ==
  /\ pc[t] = "out"
  /\ nops + Cardinality(Underway) < MaxOps
  /\ pc' = [pc EXCEPT ![t] = Waiting[op]]
  /\ UNCHANGED mu
  /\ UNCHANGED logVars

\* l.mu.Lock() returning
Acquire(t) ==
  /\ ~mu
  /\ \E op \in Ops : pc[t] = Waiting[op] /\ pc' = [pc EXCEPT ![t] = op]
  /\ mu' = TRUE
  /\ UNCHANGED logVars

\* the body of the call of caller t, from after Lock to the deferred Unlock
Body(t) ==
  \/ \E p \in Payloads, f \in WaitFaults : WriteCall(t, p, f)
  \/ \E f \in WaitFaults : RotateCall(t, f)
  \/ \E f \in WaitFaults : CloseCall(t, f)

InitWait ==
  /\ cfg \in WaitConfigs
  /\ fs \in {Earlier({-2, -1}), Numbered({1, 2}, {})}
  /\ InitLogger

NextWait ==
  \/ \E t \in Threads, op \in Ops : Invoke(t, op)
  \/ \E t \in Threads : Acquire(t)
  \/ \E t \in Threads : Body(t)
  \/ Deletion

SpecWait == InitWait /\ [][NextWait]_vars
\* the step in which caller t returns from the body
Returns(t) == pc[t] \in Ops /\ pc'[t] = "out"
\* sync.Mutex hands the mutex to a caller that has waited (no caller is
\* passed over for ever: strong fairness of Acquire), and a caller that
\* holds it runs: weak fairness of Body, with the condition under which
\* Body(t) is enabled written out.  It is pc[t] \in Ops: the body of every
\* operation yields a result in every state, and Invoke has left it a call
\* within MaxOps.
FairWait ==
  /\ SpecWait
  /\ \A t \in Threads :
       /\ SF_vars(Acquire(t))
       /\ <>[](pc[t] \in Ops) => []<><<Returns(t)>>_vars

\* ------------------------------------------------------ the directory scan
\* Logger.oldLogFiles as it runs over what ioutil.ReadDir returned: the
\* FileInfo (name, IsDir, ModTime) of every entry of the directory.  The
\* entries are taken in every order.
ScanNames == {Active, TsName(-1), JunkName, OtherName} \cup {TsName(t) : t \in 0..MaxTime}
ScanDir(S) ==
  [x \in S |-> IF x = TsName(-1) THEN File(<<>>, ModeDir, x)
               ELSE File(<<"x">>, ModeNewFile, x)]
ScanDirs == {ScanDir(S) : S \in SUBSET ScanNames}
\* modification times: all entries alike, or one entry touched after the
\* others
ModTimes(S) == {[x \in S |-> IF x = y THEN 1 ELSE 0] : y \in S \cup {<<"none", 0>>}}
Orders(S) ==
  {o \in [1..Cardinality(S) -> S] : \A i, j \in 1..Cardinality(S) : o[i] = o[j] => i = j}
ReadDir(d) ==
  {[i \in 1..Len(o) |-> [name |-> o[i], dir |-> IsDir(d[o[i]]), mtime |-> mt[o[i]]]] :
     o \in Orders(DOMAIN d), mt \in ModTimes(DOMAIN d)}

\* the loop over files: directories, names without the prefix and the ext,
\* and tokens that do not parse are skipped
RECURSIVE logFiles(_)
logFiles(files) ==
  IF files = <<>> THEN <<>>
  ELSE IF Head(files).dir THEN logFiles(Tail(files))
  ELSE IF ~timeFromName(Head(files).name) THEN logFiles(Tail(files))
  ELSE IF ~Parses(Head(files).name) THEN logFiles(Tail(files))
  ELSE <<Head(files)>> \o logFiles(Tail(files))

\* byFormatTime.Less: b[i].timestamp.After(b[j].timestamp)
\* the order the doc comment of oldLogFiles names: by ModTime
Less_byModTime(a, b) == a.mtime > b.mtime
Less(a, b) == a.name[2] > b.name[2]

\* sort.Sort(byFormatTime(logFiles))
RECURSIVE Insert(_, _)
Insert(f, sorted) ==
  IF sorted = <<>> THEN <<f>>
  ELSE IF Less(f, Head(sorted)) THEN <<f>> \o sorted
  ELSE <<Head(sorted)>> \o Insert(f, Tail(sorted))
RECURSIVE Sort(_)
Sort(files) == IF files = <<>> THEN <<>> ELSE Insert(Head(files), Sort(Tail(files)))

\* oldLogFiles run on one listing; the names of the list it returns are
\* kept in jobs, as cleanup keeps the tail of that list.
NamesOf(infos) == [i \in 1..Len(infos) |-> infos[i].name]
Scan ==
  /\ jobs = <<>>
  /\ \E files \in ReadDir(fs) : jobs' = <<NamesOf(Sort(logFiles(files)))>>
  /\ UNCHANGED <<cfg, now, fs, file, lines, last, hist, nops, nfaults, mu, pc>>

InitScan ==
  /\ cfg = DefaultCfg
  /\ fs \in ScanDirs
  /\ InitLogger

SpecScan == InitScan /\ [][Scan]_vars

\* ------------------------------------------------------- the backup key
\* A time.Time is an instant (sec seconds and nsec nanoseconds after
\* 2006-01-01T00:00:00 UTC) with a location, zone hours east of UTC.
\* Format writes the fields of the wall clock of the location, each at a
\* fixed width; time.Parse reads them back and, the layout naming no zone,
\* returns the instant with those fields in UTC.
Zones == {-1, 0, 1}
DaySecs == 86400
StampSecs == {(d + 1) * DaySecs + x : d \in 0..MaxTime, x \in {0, 59, 60, 3599, 3600, 86399}}
StampNsecs == {0, 1, 999999999}
Instants == [sec : StampSecs, nsec : StampNsecs, zone : Zones]
UTC(t) == [t EXCEPT !.zone = 0]

DigitChars == <<"0", "1", "2", "3", "4", "5", "6", "7", "8", "9">>
RECURSIVE Digits(_, _)
Digits(n, width) ==
  IF width = 0 THEN <<>> ELSE Digits(n \div 10, width - 1) \o <<DigitChars[(n % 10) + 1]>>
IsDigit(c) == \E i \in 1..10 : DigitChars[i] = c
RECURSIVE Atoi(_)
Atoi(cs) ==
  IF cs = <<>> THEN 0
  ELSE 10 * Atoi(SubSeq(cs, 1, Len(cs) - 1))
       + ((CHOOSE i \in 1..10 : DigitChars[i] = cs[Len(cs)]) - 1)

\* backupTimeFormat = "2006-01-02T15-04-05.000000000"; the instants taken
\* all lie in January 2006
YearMonth == <<"2", "0", "0", "6", "-", "0", "1", "-">>
Format(t) ==
  LET abs == t.sec + t.zone * 3600
  IN YearMonth \o Digits((abs \div DaySecs) + 1, 2) \o <<"T">>
       \o Digits((abs % DaySecs) \div 3600, 2) \o <<"-">>
       \o Digits((abs % 3600) \div 60, 2) \o <<"-">>
       \o Digits(abs % 60, 2) \o <<".">>
       \o Digits(t.nsec, 9)

NoTime == [ok |-> FALSE, sec |-> 0, nsec |-> 0, zone |-> 0]
Parse(value) ==
  IF Len(value) # 29 THEN NoTime
  ELSE IF SubSeq(value, 1, 8) # YearMonth THEN NoTime
  ELSE IF <<value[11], value[14], value[17], value[20]>> # <<"T", "-", "-", ".">> THEN NoTime
  ELSE IF \E i \in (9..29) \ {11, 14, 17, 20} : ~IsDigit(value[i]) THEN NoTime
  ELSE LET day == Atoi(SubSeq(value, 9, 10))
           hour == Atoi(SubSeq(value, 12, 13))
           min == Atoi(SubSeq(value, 15, 16))
           s == Atoi(SubSeq(value, 18, 19))
       IN IF day < 1 \/ day > 31 \/ hour > 23 \/ min > 59 \/ s > 59 THEN NoTime
          ELSE [ok |-> TRUE, sec |-> (day - 1) * DaySecs + hour * 3600 + min * 60 + s,
                nsec |-> Atoi(SubSeq(value, 21, 29)), zone |-> 0]

\* timestampedBackupName for a clock that reads a time.Time: the token is
\* currentTime().UTC().Format(backupTimeFormat)
\* the token of the time as the clock gives it, in its own location
stampedName_local(t) == TsName(Format(t))
stampedName(t) == TsName(Format(UTC(t)))

\* A rotation by rename at the clock reading now, an instant of Instants:
\* the active file gets the backup name.
Stamp ==
  /\ Active \in DOMAIN fs
  /\ fs' = Put(Del(fs, Active), stampedName(now), fs[Active])
  /\ UNCHANGED <<cfg, now, file, lines, jobs, last, hist, nops, nfaults, mu, pc>>

InitStamp ==
  /\ cfg = DefaultCfg
  /\ now \in Instants
  /\ fs = Put(Dir0, Active, File(<<"a">>, ModeNewFile, Active))
  /\ file = FALSE /\ lines = 0 /\ jobs = <<>> /\ last = NoCall
  /\ hist = Hist0(fs) /\ nops = 0 /\ nfaults = 0
  /\ mu = FALSE /\ pc = [t \in Threads |-> "out"]

SpecStamp == InitStamp /\ [][Stamp]_vars

\* ------------------------------------------------------------- the claims
Backups(d) == (DOMAIN d) \ {Active}
NewBackup == IF cfg.Sequential THEN SeqName(1) ELSE TsName(now)

\* The step is a call of op (Write, Rotate or Close).
Call(op) == nops' = nops + 1 /\ last'.op = op
\* No system call has failed up to and including this step.
NoFailure == nfaults' = 0

\* C1: a Write at lines = MaxLines rotates exactly once: afterwards the
\* active file holds only the payload, the counter is 1, and exactly one
\* new backup exists, holding the content the active file had before; no
\* Write rotates more than once.  (Behaviours without failing system call.)
C1_OneRotation ==
  [][\A p \in Payloads :
       (Call("Write") /\ NoFailure /\ Write(p, NoFault)) =>
         /\ last'.rot <= 1
         /\ (file /\ lines = max(cfg)) =>
              /\ last'.rot = 1
              /\ lines' = 1
              /\ fs'[Active].content = p
              /\ NewBackup \in DOMAIN fs'
              /\ fs'[NewBackup].content = fs[Active].content
              /\ ~cfg.Sequential =>
                   /\ NewBackup \notin DOMAIN fs
                   /\ Backups(fs') = Backups(fs) \cup {NewBackup}
              /\ cfg.Sequential =>
                   \A k \in SeqOf(fs') \ {1} :
                      /\ SeqName(k - 1) \in DOMAIN fs
                      /\ fs'[SeqName(k)] = fs[SeqName(k - 1)]
  ]_vars

\* C2: N <= MaxLines consecutive Writes to a fresh logger leave the active
\* file alone in the directory, holding the N payloads in order, with the
\* counter at N.
C2_FreshWrites ==
  (hist.fresh /\ hist.n >= 1 /\ hist.n <= max(cfg)) =>
     /\ DOMAIN fs = {Active}
     /\ fs[Active].content = hist.data
     /\ lines = hist.n

C2_Witness ==
  /\ hist.fresh /\ hist.n = 2 /\ max(cfg) = 2
  /\ Len(hist.data) = 3

\* C3: the line counter never exceeds the configured max, and a Write that
\* finds the counter at the max appends only after it has called rotate.
C3_CounterBounded ==
  /\ [](lines <= max(cfg))
  /\ [][(Call("Write") /\ file /\ lines = max(cfg)) => last'.rot >= 1]_vars

C3_Witness ==
  /\ last.op = "Write" /\ last.err /\ last.rot = 1
  /\ file /\ lines = max(cfg) /\ nfaults = 1

\* C4: timestamped scheme, MaxBackups = M > 0, every rotate at a later
\* clock reading than the one before: the started deletions come to an end,
\* and whenever none is left running after a rotation, the backups in the
\* directory are the min(M, number that have been present) ones with the
\* latest timestamps, those of an earlier run included.  (Rotations whose
\* latest call got as far as cleanup's scan; removals that succeed.)
Newest(S, k) == {t \in S : Cardinality({u \in S : u > t}) < k}
Settled == jobs = <<>> /\ hist.scanned /\ hist.strict /\ ~hist.undeleted
C4_Retention ==
  /\ <>[](jobs = <<>>)
  /\ [](Settled =>
          /\ TsOf(fs) = Newest(hist.everTs, cfg.MaxBackups)
          /\ Cardinality(TsOf(fs)) =
               IF Cardinality(hist.everTs) < cfg.MaxBackups
                 THEN Cardinality(hist.everTs) ELSE cfg.MaxBackups)

C4_Witness ==
  /\ Settled /\ cfg.MaxBackups = 2 /\ hist.rotAt = 1
  /\ hist.everTs = {-2, -1, 0, 1}
  /\ TsOf(fs) = {0, 1}

\* C5: at most one caller is inside the body of Write, Rotate or Close, and
\* it holds l.mu; every step that changes the handle, the counter or a
\* call's result is the body of the one caller inside.  Deletions run
\* whether or not the mutex is held.
InBody == {t \in Threads : pc[t] # "out"}
C5_MutualExclusion ==
  /\ [](Cardinality(InBody) <= 1 /\ (mu <=> InBody # {}))
  /\ [][(file' # file \/ lines' # lines \/ last' # last) =>
          /\ mu
          /\ \E t \in Threads : InBody = {t} /\ pc'[t] = "out"]_vars

\* one caller is in the body while another has had its call and a deletion
\* is running
C5_Witness ==
  /\ mu /\ pc[1] = "Write" /\ pc[2] = "out"
  /\ last.op = "Rotate" /\ jobs # <<>>

\* C6: sequential scheme, MaxBackups = M > 0, no backups at the start:
\* after every call the backup indices are exactly 1..min(M, rotations so
\* far), counting the rotations that backed up the active file and
\* returned no error.
C6_SequentialIndices ==
  (cfg.Sequential /\ cfg.MaxBackups > 0) =>
     SeqOf(fs) = 1..(IF hist.nbk < cfg.MaxBackups THEN hist.nbk ELSE cfg.MaxBackups)

\* C7: from every state reached without failing system call, each Write
\* and Rotate gives the same directory (names, contents, modes), handle,
\* counter and result with CopyTruncate as without.
EnvCT(c) == [Env(NoFault) EXCEPT !.cfg.CopyTruncate = c]
Listing(d) == [x \in DOMAIN d |-> <<d[x].content, d[x].mode>>]
Outcome(r) == <<Listing(r.fs), r.file, r.lines, r.err, r.panic, r.n>>
C7_SameOutcome ==
  nfaults = 0 =>
    /\ Outcome(rotate(Enter, EnvCT(TRUE))) = Outcome(rotate(Enter, EnvCT(FALSE)))
    /\ \A p \in Payloads :
         Outcome(WriteBody(Enter, EnvCT(TRUE), p)) =
           Outcome(WriteBody(Enter, EnvCT(FALSE), p))

\* C8: a Write or Rotate in the timestamped scheme leaves every backup
\* that exists as it is, and a rotation puts its backup at a name that
\* was free.  (Behaviours without failing system call.)
C8_DistinctNames ==
  [][((Call("Write") \/ Call("Rotate")) /\ NoFailure /\ ~cfg.Sequential) =>
       /\ \A n \in Backups(fs) : n \in DOMAIN fs' /\ fs'[n] = fs[n]
       /\ (last'.rot >= 1 /\ Active \in DOMAIN fs) => TsName(now) \notin DOMAIN fs
  ]_vars

\* C9: move-create, the first os.Rename of a rotation fails and a second
\* one would succeed: the call returns no error and the backup holds the
\* content the active file had.
RenameOnce == <<"move.rename", "once">>
C9_RenameRetried ==
  [][\A p \in Payloads :
       ((Call("Rotate") /\ Rotate(RenameOnce)) \/ (Call("Write") /\ Write(p, RenameOnce))) =>
         /\ ~last'.err
         /\ NewBackup \in DOMAIN fs'
         /\ fs'[NewBackup].content = fs[Active].content
  ]_vars

\* C10: move-create, every os.Rename of a rotation fails: Rotate returns
\* an error, Write returns 0 and an error.
RenameAll == <<"move.rename", "all">>
C10_RenameFailureReported ==
  [][\A p \in Payloads :
       /\ (Call("Rotate") /\ Rotate(RenameAll)) => last'.err
       /\ (Call("Write") /\ Write(p, RenameAll)) => (last'.err /\ last'.n = 0)
  ]_vars

\* C11: a Write with no handle open, on an existing active file of L lines
\* with L + 1 <= max: the file is reused, the payload appended, the counter
\* becomes L + 1 and no backup is made.  (No failing system call.)
C11_ReuseExisting ==
  [][\A p \in Payloads :
       (/\ Call("Write") /\ NoFailure /\ Write(p, NoFault)
        /\ ~file /\ Active \in DOMAIN fs
        /\ linesInFile(fs[Active].content) + 1 <= max(cfg)) =>
         /\ last'.rot = 0
         /\ fs'[Active].content = fs[Active].content \o p
         /\ lines' = linesInFile(fs[Active].content) + 1
         /\ Backups(fs') = Backups(fs)
  ]_vars

\* C12: after Writes of one line each to a fresh logger, the next such
\* Write gives the same directory, counter, rotation and result whether or
\* not a Close comes before it.  (No failing system call.)
OneLine == <<"b", NL>>
Reopened(r) == <<r.fs, r.lines, r.rot, r.err, r.n>>
C12_CloseTransparent ==
  (hist.fresh /\ file /\ nfaults = 0 /\ Len(hist.data) = 2 * hist.n) =>
     Reopened(WriteBody(close(Enter, Env(NoFault)), Env(NoFault), OneLine)) =
       Reopened(WriteBody(Enter, Env(NoFault), OneLine))

\* C13: Rotate with the active file on disk, whatever the counter: one
\* rotation, no error, one new backup holding the content the active file
\* had, the active file empty and open with the counter at 0, and every
\* timestamped backup beyond the newest MaxBackups handed to a deleteAll.
\* (No failing system call.)
C13_RotateUnconditional ==
  [][(Call("Rotate") /\ NoFailure /\ Rotate(NoFault) /\ Active \in DOMAIN fs) =>
       /\ last'.rot = 1 /\ ~last'.err
       /\ NewBackup \in DOMAIN fs'
       /\ fs'[NewBackup].content = fs[Active].content
       /\ ~cfg.Sequential =>
            /\ NewBackup \notin DOMAIN fs
            /\ Backups(fs') = Backups(fs) \cup {NewBackup}
       /\ fs'[Active].content = <<>>
       /\ file' /\ lines' = 0
       /\ (~cfg.Sequential /\ cfg.MaxBackups > 0) =>
            \A t \in TsOf(fs') \ Newest(TsOf(fs'), cfg.MaxBackups) :
               \E i \in 1..Len(jobs') : \E k \in 1..Len(jobs'[i]) : jobs'[i][k] = TsName(t)
  ]_vars

\* C14: a Rotate that finds no active file on disk and returns no error
\* has created the active file empty, holds it open with the counter at 0,
\* and has made no backup.
C14_RotateNoFile ==
  [][(Call("Rotate") /\ Active \notin DOMAIN fs /\ ~last'.err) =>
       /\ ~last'.panic /\ last'.rot = 1
       /\ fs' = Put(fs, Active, File(<<>>, ModeNewFile, Active))
       /\ file' /\ lines' = 0
       /\ Backups(fs') = Backups(fs)
  ]_vars

C14_Witness ==
  /\ last.op = "Rotate" /\ nops = 1 /\ ~last.err /\ nfaults = 0
  /\ DOMAIN fs = {Active} /\ fs[Active].content = <<>>
  /\ file /\ lines = 0

\* C15: every Close leaves no handle, the directory and the counter as
\* they were, and returns nil when no handle was open; with no handle open
\* a Close returns nil whatever system call would fail.
C15_CloseIdempotent ==
  /\ [](~file => \A f \in Faults : ~close(Enter, Env(f)).err)
  /\ [][Call("Close") =>
          /\ ~file' /\ fs' = fs /\ lines' = lines /\ jobs' = jobs
          /\ ~file => ~last'.err]_vars

\* a Close whose underlying close failed has been called
C15_Witness == last.op = "Close" /\ last.err /\ ~file /\ lines > 0

\* C16: a Write that gets to the underlying file write leaves the counter
\* one above what it was at that point (0 after a rotation, the count of
\* the reopened file after a reopen), whatever the payload and whether or
\* not the file write failed; a Write that fails before leaves the counter
\* as it was.  The same for a payload of several newlines, written from any
\* reachable state.
AtWrite(rot) ==
  IF rot >= 1 THEN 0
  ELSE IF file THEN lines
  ELSE IF Active \in DOMAIN fs THEN linesInFile(fs[Active].content)
  ELSE 0
ManyLines == <<"c", NL, NL, "c", NL>>
C16_OnePerWrite ==
  /\ [][Call("Write") =>
          IF last'.wrote THEN lines' = AtWrite(last'.rot) + 1
          ELSE last'.err /\ lines' = lines]_vars
  /\ [](\A f \in {NoFault, <<"write", "all">>} :
          LET r == WriteBody(Enter, Env(f), ManyLines)
          IN IF r.wrote THEN r.lines = AtWrite(r.rot) + 1
             ELSE Bad(r) /\ r.lines = lines)

\* a Write whose file write failed has been counted as the second line
C16_Witness ==
  /\ last.op = "Write" /\ last.wrote /\ last.err /\ last.rot = 0
  /\ lines = 2

\* C17: timestamped scheme with a cap: no step removes or changes the
\* directory named like a backup, the file whose token is no timestamp or
\* the file of another name, and whenever no deletion is left running
\* after a rotation, the backup files kept are the newest MaxBackups of
\* the backup files alone.
C17_ForeignKept ==
  /\ [][\A n \in ForeignNames : n \in DOMAIN fs' /\ fs'[n] = fs[n]]_vars
  /\ [](Settled => TsOf(fs) = Newest(hist.everTs, cfg.MaxBackups))

\* two backup files are kept beside the directory that is named like a
\* newer backup than one of them
C17_Witness ==
  /\ Settled /\ cfg.MaxBackups = 2 /\ hist.everTs = {-2, 0, 1}
  /\ TsOf(fs) = {0, 1} /\ ForeignNames \subseteq DOMAIN fs

\* C18: sequential scheme, no system call fails: no call removes, renames
\* or changes a directory, one named <activepath>.N included, or a file
\* that is neither the active file nor named <activepath>.N.
IsNumbered(n) == n[1] = "seq"
C18_SequentialFrame ==
  [][(cfg.Sequential /\ NoFailure) =>
       \A n \in DOMAIN fs :
         (IsDir(fs[n]) \/ (n # Active /\ ~IsNumbered(n))) =>
           n \in DOMAIN fs' /\ fs'[n] = fs[n]]_vars

\* C19: sequential scheme with a cap, no system call fails, no directory
\* among the entries: whatever the indices of the backups before it, after
\* a call that has rotated once the indices are 1..min(MaxBackups, count),
\* count being the backups before plus the new one, and index 1 holds the
\* content the active file had.
Min(a, b) == IF a < b THEN a ELSE b
Rotated == nops' = nops + 1 /\ last'.rot = 1 /\ hist'.nbk = hist.nbk + 1
C19_Contiguous ==
  [][(Rotated /\ NoFailure /\ \A n \in DOMAIN fs : ~IsDir(fs[n])) =>
       /\ SeqOf(fs') = 1..Min(cfg.MaxBackups, Cardinality(SeqOf(fs)) + 1)
       /\ fs'[SeqName(1)].content = fs[Active].content]_vars

\* C20: sequential scheme, MaxBackups 2, MaxLines 1, started in an empty
\* directory, no system call fails: from the third rotation on the
\* directory holds exactly the active file, <active>.1 and <active>.2, and
\* the third and the fourth rotation leave in <active>.1 the content just
\* rotated out of the active file (the most recent rotated content) and in
\* <active>.2 the content rotated out the time before (the oldest kept).
ThreeFiles == {Active, SeqName(1), SeqName(2)}
C20_ThreeFiles ==
  /\ []((nfaults = 0 /\ hist.nbk >= 3) => DOMAIN fs = ThreeFiles)
  /\ [][(Rotated /\ NoFailure /\ hist'.nbk >= 3) =>
         /\ fs'[SeqName(1)].content = fs[Active].content
         /\ fs'[SeqName(2)].content = fs[SeqName(1)].content]_vars

\* four rotations have been made by Writes, and the two backups differ
C20_Witness ==
  /\ hist.nbk = 4 /\ nfaults = 0 /\ last.op = "Write" /\ last.rot = 1
  /\ DOMAIN fs = ThreeFiles
  /\ fs[SeqName(1)].content = <<"b", NL>> /\ fs[SeqName(2)].content = <<"a">>

\* C20 as stated: the same, with <active>.1 holding the second-most-recent
\* rotated content, the one rotated out the time before the last.
C20_SecondMostRecent ==
  /\ []((nfaults = 0 /\ hist.nbk >= 3) => DOMAIN fs = ThreeFiles)
  /\ [][(Rotated /\ NoFailure /\ hist'.nbk >= 3) =>
         fs'[SeqName(1)].content = fs[SeqName(1)].content]_vars

\* C21: sequential scheme, whatever MaxBackups is: no call changes or
\* removes a file named prefix-<timestamp>ext, no Write or Rotate reaches
\* the directory scan of cleanup, whatever system call fails in it, and no
\* deleteAll is ever started.
IsStamped(n) == n[1] = "ts"
C21_NoCleanup ==
  /\ [](cfg.Sequential => jobs = <<>>)
  /\ [][cfg.Sequential =>
         /\ \A n \in DOMAIN fs :
              IsStamped(n) => n \in DOMAIN fs' /\ fs'[n] = fs[n]
         /\ Call("Rotate") => \A f \in Faults : rotate(Enter, Env(f)).scans = 0
         /\ Call("Write") =>
              \A f \in Faults : WriteBody(Enter, Env(f), OneLine).scans = 0]_vars

\* two rotations have been made with MaxBackups = 1 beside two timestamped
\* backups, which are both still there
C21_Witness ==
  /\ cfg.Sequential /\ cfg.MaxBackups = 1 /\ hist.nbk = 2 /\ nfaults = 0
  /\ TsOf(fs) = {-2, -1} /\ SeqOf(fs) = {1}

\* C22: timestamped scheme with MaxBackups = 0: no deleteAll is ever
\* started, no step removes a backup, and a rotation of the active file at
\* a clock reading no backup is named after adds exactly the backup of
\* that reading (no system call failing), so that K rotations at K distinct
\* readings leave K backups.
KeepsAll == ~cfg.Sequential /\ cfg.MaxBackups = 0
C22_KeepsAll ==
  /\ [](KeepsAll => jobs = <<>>)
  /\ [][KeepsAll =>
         /\ TsOf(fs) \subseteq TsOf(fs')
         /\ (nops' = nops + 1 /\ last'.rot = 1 /\ NoFailure
               /\ Active \in DOMAIN fs /\ now \notin TsOf(fs)) =>
              TsOf(fs') = TsOf(fs) \cup {now}]_vars

\* two rotations at two clock readings have left two backups
C22_Witness ==
  /\ KeepsAll /\ nfaults = 0 /\ TsOf(fs) = {0, 1} /\ jobs = <<>>
  /\ last.rot = 1

\* C23: timestamped scheme with a cap.  A call removes no backup itself:
\* when its rotation has got through cleanup with more than MaxBackups
\* backup files in the directory, it returns with all of them still there
\* and one more deleteAll started, whose files all exist at the return.
\* And a call in which no system call fails returns no error after an
\* os.Remove of deleteAll has failed.
CallStep == nops' = nops + 1
C23_FireAndForget ==
  [][CallStep =>
       /\ TsOf(fs) \subseteq TsOf(fs')
       /\ (last'.rot >= 1 /\ hist'.scanned /\ ~last'.panic
             /\ Cardinality(TsOf(fs')) > cfg.MaxBackups) =>
            /\ Len(jobs') = Len(jobs) + 1
            /\ \A i \in 1..Len(jobs'[Len(jobs')]) :
                 jobs'[Len(jobs')][i] \in DOMAIN fs'
       /\ (hist.undeleted /\ nfaults' = nfaults) =>
            ~last'.err /\ ~last'.panic]_vars

\* after a deletion has failed, a second call has rotated and returned
\* without error while three backups exist under MaxBackups = 1, its
\* deleteAll not having removed anything yet
C23_Witness ==
  /\ cfg.MaxBackups = 1 /\ hist.undeleted /\ nops >= 2 /\ nfaults = 1
  /\ last.op \in {"Write", "Rotate"} /\ last.rot = 1 /\ ~last.err
  /\ TsOf(fs) = {-2, 0, 1}
  /\ jobs = <<(<<TsName(0), TsName(-2)>>)>>

\* C24: a Rotate or Write in which the chown of copyTruncate or of
\* moveCreate fails returns an error and leaves the logger without handle;
\* the Write returns count 0 and its payload is in no file: the active
\* file is empty (move-create) or as it was (copy-truncate).
Failing(f) == nops' = nops + 1 /\ nfaults' = nfaults + 1 /\ f # NoFault
C24_ChownAborts ==
  [][\A f \in ChownFaults :
       /\ (Failing(f) /\ last'.op = "Rotate" /\ Rotate(f)) =>
            last'.err /\ ~file'
       /\ \A p \in Payloads :
            (Failing(f) /\ last'.op = "Write" /\ Write(p, f)) =>
              /\ last'.err /\ ~file' /\ ~last'.wrote /\ last'.n = 0
              /\ fs'[Active].content \in {<<>>, fs[Active].content}]_vars

\* a Write has returned an error from a move-create rotation that made
\* the backup and the new active file and then failed
C24_Witness ==
  /\ last.op = "Write" /\ last.err /\ last.rot = 1 /\ nfaults = 1 /\ ~file
  /\ ~cfg.CopyTruncate /\ Active \in DOMAIN fs /\ fs[Active].content = <<>>
  /\ Backups(fs) # {}

Recovered(p) ==
  /\ ~last'.err /\ last'.wrote /\ last'.n = Len(p) /\ file' /\ lines' = 1
  /\ fs' = Put(fs, Active, [fs[Active] EXCEPT !.content = p])
RotatedInPlace ==
  /\ Call("Write") \/ Call("Rotate")
  /\ last'.rot >= 1 /\ ~last'.err /\ ~last'.panic
  /\ Active \in DOMAIN fs

\* C27: a rotation that reports success leaves, with CopyTruncate, the
\* active path on the file it named before (same identity), holding only
\* what the call wrote after the rotation (length reset to 0, written from
\* position 0), and the backup path on a different file; with move-create,
\* when no system call failed, the backup path names the file the active
\* path named before and the active path names another file.
C27_Identity ==
  [][RotatedInPlace =>
       /\ cfg.CopyTruncate =>
            /\ last'.old = {Active}
            /\ Len(fs'[Active].content) = last'.n
            /\ NewBackup \in DOMAIN fs'
       /\ (~cfg.CopyTruncate /\ NoFailure) =>
            /\ last'.old = {NewBackup}
            /\ Active \in DOMAIN fs'
  ]_vars

\* a Write has rotated the file found at construction by copy-truncate:
\* the active path still names that file, now holding the payload, and the
\* backup is another file with the content from before
C27_Witness ==
  /\ cfg.CopyTruncate /\ ~cfg.Sequential /\ nfaults = 0
  /\ last.op = "Write" /\ last.rot = 1 /\ ~last.err /\ nops = 1
  /\ last.old = {Active}
  /\ DOMAIN fs = {Active, TsName(now)}
  /\ fs[Active].content = OneLine /\ fs[TsName(now)].content = <<"a">>

\* C28: the handle is open after every Write or Rotate that returned no
\* error and absent after every Close, failed or not; and every Write or
\* Rotate in which no system call fails returns no error and leaves the
\* handle open, whatever state the calls and failures before have left:
\* never opened, closed, or left without handle by a failed call.
C28_StateMachine ==
  [][CallStep =>
       /\ (last'.op \in {"Write", "Rotate"} /\ ~last'.err /\ ~last'.panic) => file'
       /\ last'.op = "Close" => ~file'
       /\ (last'.op \in {"Write", "Rotate"} /\ nfaults' = nfaults) =>
            file' /\ ~last'.err /\ ~last'.panic]_vars

\* the third call, a Write, has opened the file that this logger had
\* created in the empty directory and closed, or not yet opened
C28_Witness ==
  /\ nops = 3 /\ nfaults = 0 /\ last.op = "Write" /\ last.rot = 0 /\ ~last.err
  /\ file /\ lines = 1 /\ cfg.MaxLines = 2
  /\ DOMAIN fs = {Active} /\ fs[Active].content = <<"a">>
  /\ fs[Active].mode = ModeNewFile \ umask

\* C29: timestamped scheme.  The backup name is the base name of the
\* active file with -<clock reading> put in before its last extension (at
\* the end when it has none).  A rotation of the active file in which no
\* system call fails leaves a backup named after the clock reading of the
\* rotation and adds no other; when that name was free the backup holds
\* what the active file held.  MaxLines 1, empty directory: after the
\* Writes of "b\n" and "a" the active file holds "a" alone and the one
\* backup, named after a reading up to now, holds "b\n".
SplitsAt(filename, k, t) ==
  /\ backupFileName(filename, t) =
       SubSeq(filename, 1, k) \o <<Dash, t>> \o SubSeq(filename, k + 1, Len(filename))
  /\ \A i \in 1..Len(filename) : filename[i] = Dot => i <= k + 1
  /\ k < Len(filename) => filename[k + 1] = Dot
BooFoo ==
  /\ hist.fresh /\ hist.n = 2 /\ hist.data = OneLine \o <<"a">>
  /\ cfg.MaxLines = 1 /\ ~cfg.Sequential /\ nfaults = 0
C29_BackupName ==
  /\ [](\A filename \in Filenames :
          \E k \in 0..Len(filename) : SplitsAt(filename, k, now))
  /\ [][(CallStep /\ last'.rot = 1 /\ NoFailure /\ ~cfg.Sequential
           /\ Active \in DOMAIN fs) =>
          /\ TsName(now) \in DOMAIN fs'
          /\ TsOf(fs') \subseteq TsOf(fs) \cup {now}
          /\ TsName(now) \notin DOMAIN fs =>
               fs'[TsName(now)].content = fs[Active].content]_vars
  /\ [](BooFoo =>
          \E t \in 0..now :
            /\ DOMAIN fs = {Active, TsName(t)}
            /\ fs[Active].content = <<"a">>
            /\ fs[TsName(t)].content = OneLine)

\* the second Write came at the later clock reading and the backup bears
\* that reading
C29_Witness ==
  /\ BooFoo /\ now = 1 /\ last.rot = 1
  /\ DOMAIN fs = {Active, TsName(1)} /\ fs[TsName(1)].content = OneLine

\* C30: a Write whose payload is longer than MaxLines, counted in bytes
\* or in lines, returns an error: the Write just made, and a Write of two
\* lines in its place.
TooLong(p) == Len(p) > max(cfg) \/ linesInFile(p) > max(cfg)
C30_LongWriteRejected ==
  [][Call("Write") =>
       /\ \A p \in Payloads : (Write(p, NoFault) /\ TooLong(p)) => last'.err
       /\ TooLong(ManyLines) => WriteBody(Enter, Env(NoFault), ManyLines).err]_vars

\* C31: the first call on a logger is a Write, no system call fails, and
\* the active file is on disk with MaxLines or more lines: the Write
\* rotates once and returns no error; afterwards the active file holds
\* the payload alone, the counter is 1, and the directory has exactly one
\* more backup than before, holding the content the active file had.
C31_FirstWriteRotates ==
  [][\A p \in Payloads :
       (/\ Call("Write") /\ NoFailure /\ Write(p, NoFault)
        /\ nops = 0 /\ Active \in DOMAIN fs
        /\ linesInFile(fs[Active].content) >= max(cfg)) =>
         /\ last'.rot = 1 /\ ~last'.err /\ last'.n = Len(p)
         /\ fs'[Active].content = p
         /\ lines' = 1
         /\ NewBackup \in DOMAIN fs'
         /\ fs'[NewBackup].content = fs[Active].content
         /\ Cardinality(Backups(fs')) = Cardinality(Backups(fs)) + 1
         /\ ~cfg.Sequential =>
              /\ NewBackup \notin DOMAIN fs
              /\ \A n \in Backups(fs) : fs'[n] = fs[n]
  ]_vars

\* the file of two lines found at construction is now the backup, and the
\* active file holds the line of the first Write
C31_Witness ==
  /\ nops = 1 /\ nfaults = 0 /\ last.op = "Write" /\ last.rot = 1 /\ ~last.err
  /\ cfg.MaxLines = 2 /\ ~cfg.Sequential /\ lines = 1
  /\ DOMAIN fs = {Active, TsName(now)}
  /\ fs[Active].content = OneLine
  /\ fs[TsName(now)].content = <<"b", NL, "b", NL>>

Ord(c) ==
  IF c = "-" THEN 0 ELSE IF c = "." THEN 1 ELSE IF c = "T" THEN 12
  ELSE 1 + (CHOOSE i \in 1..10 : DigitChars[i] = c)
\* a sorts before b as a string
LexLess(a, b) ==
  \E i \in 1..Len(b) :
     /\ \A j \in 1..(i - 1) : j <= Len(a) /\ a[j] = b[j]
     /\ i > Len(a) \/ Ord(a[i]) < Ord(b[i])
\* the instant t comes before the instant u
Before(t, u) == t.sec < u.sec \/ (t.sec = u.sec /\ t.nsec < u.nsec)

\* C33: the token of a backup name parses back to the instant of the
\* rotation, to the nanosecond, in UTC, whatever the location of the
\* clock; and the name made at an earlier instant sorts before, the name
\* made at a later instant after, the name made now.
C33_RoundTrip ==
  /\ [](\A n \in DOMAIN fs :
          n[1] = "ts" =>
            /\ Parse(n[2]).ok /\ Parse(n[2]).zone = 0
            /\ Parse(n[2]).sec = now.sec /\ Parse(n[2]).nsec = now.nsec)
  /\ [](\A t \in Instants :
          /\ Before(t, now) => LexLess(stampedName(t)[2], stampedName(now)[2])
          /\ Before(now, t) => LexLess(stampedName(now)[2], stampedName(t)[2]))

\* a rotation in the last nanosecond of a day, by a clock of a location
\* east of UTC, where the date is already the next day
C33_Witness ==
  /\ now = [sec |-> 2 * DaySecs - 1, nsec |-> 999999999, zone |-> 1]
  /\ DOMAIN fs = {stampedName(now)}
  /\ stampedName(now)[2] = YearMonth \o <<"0", "2", "T", "2", "3", "-", "5", "9", "-", "5", "9",
                                          ".", "9", "9", "9", "9", "9", "9", "9", "9", "9">>

\* a is the beginning of b
IsPrefix(a, b) == Len(a) <= Len(b) /\ SubSeq(b, 1, Len(a)) = a

\* C34: after a call that rotated, whether or not a system call failed,
\* the content the active file had before is on disk in full: under a
\* backup name, or still at the beginning of the active file.
C34_ContentKept ==
  [][(CallStep /\ last'.rot >= 1 /\ Active \in DOMAIN fs) =>
       \/ \E n \in Backups(fs') : ~IsDir(fs'[n]) /\ fs'[n].content = fs[Active].content
       \/ /\ Active \in DOMAIN fs'
          /\ IsPrefix(fs[Active].content, fs'[Active].content)
  ]_vars

\* No backup bears a later timestamp than the clock reads: what a clock
\* that never went back leaves in the directory.
NoneAhead == \A t \in TsOf(fs) : t <= now

\* C35: timestamped scheme with a cap, no backup ahead of the clock.  A
\* step of a deletion goroutine, wherever it comes between the calls,
\* removes neither the active file nor one of the MaxBackups newest backup
\* files there are at that moment; no name waiting in a delete list is one
\* of those; and the delete list a rotation hands over does not hold the
\* backup that rotation made.
C35_NoOverDeletion ==
  /\ [][(NoneAhead /\ ~CallStep) =>
          \A n \in (DOMAIN fs) \ (DOMAIN fs') :
             /\ n # Active
             /\ n[1] = "ts" /\ n[2] \notin Newest(TsOf(fs), cfg.MaxBackups)]_vars
  /\ [](NoneAhead =>
          \A i \in 1..Len(jobs) : \A k \in 1..Len(jobs[i]) :
             /\ jobs[i][k] # Active
             /\ jobs[i][k] \in DOMAIN fs =>
                  jobs[i][k][2] \notin Newest(TsOf(fs), cfg.MaxBackups))
  /\ [][(NoneAhead /\ CallStep /\ Len(jobs') > Len(jobs)) =>
          \A k \in 1..Len(jobs'[Len(jobs')]) : jobs'[Len(jobs')][k] # NewBackup]_vars

\* the deletion started by the second rotation has removed the backup of
\* the first while the deletion started by the first has not yet run
C35_Witness ==
  /\ cfg.MaxBackups = 1 /\ now = 1 /\ nops = 2 /\ nfaults = 0
  /\ TsOf(fs) = {-2, 1} /\ Active \in DOMAIN fs
  /\ jobs = << <<TsName(-2)>>, <<TsName(-2)>> >>

\* C36 as stated: the active file never holds the payloads of more than
\* MaxLines Writes made since it was created or emptied, whatever the
\* payloads and also across Close and reopening.  Every payload of
\* PayloadKinds starts with one of "a", "b", "c" and holds that letter once,
\* so the letters count the Writes whose payload the file holds.
Starts(content) ==
  Cardinality({i \in 1..Len(content) : content[i] \in {"a", "b", "c"}})
ActiveContent == IF Active \in DOMAIN fs THEN fs[Active].content ELSE <<>>
C36_AtMostMaxWrites == Starts(ActiveContent) <= max(cfg)

\* C36, amended: the bound holds of payloads that are one line each (one
\* non-empty run closed by a line end): an active file made of such payloads
\* only never holds more than MaxLines of them, across Close and reopening
\* too, where the counter restarts from the number of lines in the file.
OnlyOneLiners(content) == \A i \in 1..Len(content) : content[i] \in {"b", NL}
C36_OneLinePayloads ==
  OnlyOneLiners(ActiveContent) =>
    /\ Starts(ActiveContent) <= max(cfg)
    /\ file => lines = Starts(ActiveContent)
C36_Witness ==
  /\ cfg.MaxLines = 3
  /\ file /\ lines = 3
  /\ ActiveContent = <<"b", NL, "b", NL, "b", NL>>
  /\ nops = 4

\* C37: sequential scheme, MaxBackups = 0, empty directory at the start, no
\* failure.  The backups are exactly the indices 1..K; a call that rotates an
\* existing active file deletes nothing: it puts the content of the active
\* file at index 1 and the content of index j at index j+1, so K grows by one
\* and index j holds the content of the j-th most recent rotation; any other
\* call leaves the backups alone; and the contents read from index K down
\* to the active file grow by exactly the payload of each Write, so they are
\* the payloads written, each once and in the order of the Writes.
RECURSIVE ChainFrom(_, _)
ChainFrom(d, k) ==
  IF k = 0 THEN (IF Active \in DOMAIN d THEN d[Active].content ELSE <<>>)
  ELSE d[SeqName(k)].content \o ChainFrom(d, k - 1)
Chain(d) == ChainFrom(d, Cardinality(SeqOf(d)))
BackedUp == last'.rot >= 1 /\ Active \in DOMAIN fs
C37_Unlimited ==
  /\ [](/\ SeqOf(fs) = 1..Cardinality(SeqOf(fs))
        /\ DOMAIN fs \subseteq {Active} \cup {SeqName(k) : k \in SeqOf(fs)}
        /\ \A n \in DOMAIN fs : ~IsDir(fs[n]))
  /\ [][CallStep =>
         LET K == Cardinality(SeqOf(fs))
         IN /\ ~last'.err
            /\ IF BackedUp
                 THEN /\ SeqOf(fs') = 1..(K + 1)
                      /\ fs'[SeqName(1)].content = fs[Active].content
                      /\ \A j \in 1..K :
                           fs'[SeqName(j + 1)].content = fs[SeqName(j)].content
                 ELSE /\ SeqOf(fs') = SeqOf(fs)
                      /\ \A j \in 1..K :
                           fs'[SeqName(j)].content = fs[SeqName(j)].content
            /\ \E p \in Payloads :
                 /\ last'.op # "Write" => p = <<>>
                 /\ Len(p) = last'.n
                 /\ Chain(fs') = Chain(fs) \o p]_vars
C37_Witness ==
  /\ SeqOf(fs) = {1, 2, 3}
  /\ fs[SeqName(3)].content = <<"a">>
  /\ fs[SeqName(2)].content = <<"b", NL>>
  /\ fs[SeqName(1)].content = <<>>
  /\ fs[Active].content = <<"a">>
  /\ last.op = "Write" /\ last.rot = 1

\* C38: in the sequential scheme no call overwrites or loses a backup whose
\* index is below MaxBackups, also when a rename inside cascade fails: after
\* the call its content is at the same index or, moved by the cascade, at
\* the next one.
Kept(j) ==
  \/ /\ SeqName(j) \in DOMAIN fs'
     /\ fs'[SeqName(j)].content = fs[SeqName(j)].content
  \/ /\ SeqName(j + 1) \in DOMAIN fs'
     /\ fs'[SeqName(j + 1)].content = fs[SeqName(j)].content
C38_OnlyTheLast ==
  [][CallStep => \A j \in SeqOf(fs) : j < cfg.MaxBackups => Kept(j)]_vars

\* The same of the calls in which no rename fails
C38_WithoutFailure ==
  [][(CallStep /\ nfaults' = nfaults) =>
       \A j \in SeqOf(fs) : j < cfg.MaxBackups => Kept(j)]_vars

\* C39: every invoked Write, Rotate and Close comes to its return, with or
\* without an error, and the mutex is held exactly while a caller is inside
\* a body, so it is released at every return; with the mutex handed to
\* every waiting caller in turn, no caller waits for ever.
C39_AllComplete ==
  /\ \A t \in Threads : (pc[t] # "out") ~> (pc[t] = "out")
  /\ [](mu <=> \E t \in Threads : pc[t] \in Ops)
  /\ [](nops + Cardinality(Underway) <= MaxOps)
  /\ [][\A t \in Threads : (pc[t] \in Ops /\ pc'[t] = "out") =>
          ~mu' /\ nops' = nops + 1]_vars
C39_Witness ==
  /\ mu /\ pc[1] = "Rotate" /\ pc[2] = "wantWrite"
  /\ nops = 1 /\ last.err

====
